---- MODULE Spec2Model ----
(***************************************************************************)
(* Model of cartographer_ros/set_initpose_main.cc: the /initialpose        *)
(* subscriber callback that finishes the running trajectory, recovers the  *)
(* height of the pose hint from the nearest submap and starts a new        *)
(* trajectory at the pose relative to the origin of trajectory 0.          *)
(*                                                                         *)
(* Numbers.  Translations are integers.  A quaternion <<x, y, z, w>> is    *)
(* stored with every component doubled, so that the 24 Hurwitz units       *)
(* (components in {0, +-1/2, +-1}) are integer tuples; these are unit      *)
(* quaternions that doubles represent exactly, and every tf2 operation on  *)
(* them is exact.  A squared length is kept as three base-1000 limbs       *)
(* <<hi, mid, lo>> because 1e6 squared does not fit TLC's 32-bit integers. *)
(***************************************************************************)
EXTENDS Integers, Sequences, FiniteSets, TLC

\* ------------------------------------------------------------------ bounds
MaxFragments == 2
MaxTrajectoryId == 3

\* ------------------------------------------------------- program constants
StatusOK == 0
kInitMinDist == 1000000
kRelativeToTrajectoryId == 0
kInitialTrajectoryId == 1

\* ----------------------------------------------------------------- domains
NonOkCodes == {5}

IdentityQ == <<0, 0, 0, 2>>
Hints == {[position |-> <<0, 0, 0>>, orientation |-> <<0, 0, 2, 0>>],
          [position |-> <<1, 0, 0>>, orientation |-> <<-1, -1, -1, -1>>],
          [position |-> <<1, 0, 3>>, orientation |-> <<0, 0, 2, 0>>],
          [position |-> <<0, 0, 3>>, orientation |-> <<-1, 1, 1, 1>>]}
HintZ == {0, 3}

FragmentPoses == {<<0, 0, 5>>, <<1, 1, 9>>, <<1000001, 0, 5>>, <<1, 1000000, 9>>}

RefPoses == {[translation |-> <<0, 0, 0>>, rotation |-> IdentityQ],
             [translation |-> <<1, 2, 3>>, rotation |-> <<1, 1, 1, 1>>]}

RECURSIVE SeqsUpTo(_, _)
SeqsUpTo(S, n) ==
  IF n = 0 THEN {<<>>}
  ELSE LET shorter == SeqsUpTo(S, n - 1)
       IN shorter \cup {Append(s, e) : s \in {t \in shorter : Len(t) = n - 1}, e \in S}

\* --------------------------------------------------- tf2 vectors, matrices
Dot(a, b) == a[1] * b[1] + a[2] * b[2] + a[3] * b[3]
VecSub(a, b) == <<a[1] - b[1], a[2] - b[2], a[3] - b[3]>>
VecAdd(a, b) == <<a[1] + b[1], a[2] + b[2], a[3] + b[3]>>
VecNeg(a) == <<-a[1], -a[2], -a[3]>>
setZ(v, z) == <<v[1], v[2], z>>
Column(m, j) == <<m[1][j], m[2][j], m[3][j]>>
transpose(m) == <<Column(m, 1), Column(m, 2), Column(m, 3)>>
MatVec(m, v) == <<Dot(m[1], v), Dot(m[2], v), Dot(m[3], v)>>
MatRow(r, b) == <<Dot(r, Column(b, 1)), Dot(r, Column(b, 2)), Dot(r, Column(b, 3))>>
MatMul(a, b) == <<MatRow(a[1], b), MatRow(a[2], b), MatRow(a[3], b)>>
IdentityBasis == <<<<1, 0, 0>>, <<0, 1, 0>>, <<0, 0, 1>>>>

\* Squares as base-1000 limbs <<hi, mid, lo>>.
Abs(n) == IF n < 0 THEN -n ELSE n
Square3(d) ==
  LET a == Abs(d) \div 1000
      b == Abs(d) % 1000
      t0 == b * b
      t1 == 2 * a * b + t0 \div 1000
      t2 == a * a + t1 \div 1000
  IN <<t2, t1 % 1000, t0 % 1000>>
Add3(p, q) ==
  LET l0 == p[3] + q[3]
      l1 == p[2] + q[2] + l0 \div 1000
      l2 == p[1] + q[1] + l1 \div 1000
  IN <<l2, l1 % 1000, l0 % 1000>>
Less3(p, q) ==
  \/ p[1] < q[1]
  \/ p[1] = q[1] /\ p[2] < q[2]
  \/ p[1] = q[1] /\ p[2] = q[2] /\ p[3] < q[3]

\* tf2::Vector3::length(), as its square: sqrt is strictly monotone on the
\* integers below 2^53, so lengths compare as their squares do.
length2(v) == Add3(Add3(Square3(v[1]), Square3(v[2])), Square3(v[3]))

Sqrt(n) == CHOOSE s \in 0..n : s * s = n

\* tf2::Matrix3x3::setRotation: s = 2/d, entries 1 - (yy + zz), xy - wz, ...
\* With doubled components D = 4d and every entry is (an integer) / D.
setRotation(q) ==
  LET X == q[1]
      Y == q[2]
      Z == q[3]
      W == q[4]
      D == X * X + Y * Y + Z * Z + W * W
  IN <<<<(D - 2 * (Y * Y + Z * Z)) \div D, (2 * (X * Y - W * Z)) \div D, (2 * (X * Z + W * Y)) \div D>>,
       <<(2 * (X * Y + W * Z)) \div D, (D - 2 * (X * X + Z * Z)) \div D, (2 * (Y * Z - W * X)) \div D>>,
       <<(2 * (X * Z - W * Y)) \div D, (2 * (Y * Z + W * X)) \div D, (D - 2 * (X * X + Y * Y)) \div D>>>>

\* tf2::Matrix3x3::getRotation: the trace test and the largest-diagonal
\* branch; the result is the doubled quaternion.
getRotation(m) ==
  LET trace == m[1][1] + m[2][2] + m[3][3]
  IN IF trace > 0
     THEN LET s == Sqrt(trace + 1)
          IN <<(m[3][2] - m[2][3]) \div s, (m[1][3] - m[3][1]) \div s,
               (m[2][1] - m[1][2]) \div s, s>>
     ELSE LET i == IF m[1][1] < m[2][2]
                   THEN (IF m[2][2] < m[3][3] THEN 3 ELSE 2)
                   ELSE (IF m[1][1] < m[3][3] THEN 3 ELSE 1)
              j == (i % 3) + 1
              k == ((i + 1) % 3) + 1
              s == Sqrt(m[i][i] - m[j][j] - m[k][k] + 1)
              temp == [n \in 1..4 |->
                         IF n = i THEN s
                         ELSE IF n = 4 THEN (m[k][j] - m[j][k]) \div s
                         ELSE IF n = j THEN (m[j][i] + m[i][j]) \div s
                         ELSE (m[k][i] + m[i][k]) \div s]
          IN <<temp[1], temp[2], temp[3], temp[4]>>

\* tf2::Transform
Transform(basis, origin) == [basis |-> basis, origin |-> origin]
IdentityTf == Transform(IdentityBasis, <<0, 0, 0>>)
inverseKeepsOrigin(t) == Transform(transpose(t.basis), t.origin)
inverse(t) ==
  LET inv == transpose(t.basis)
  IN Transform(inv, MatVec(inv, VecNeg(t.origin)))
TransformMul(t1, t2) ==
  Transform(MatMul(t1.basis, t2.basis), VecAdd(MatVec(t1.basis, t2.origin), t1.origin))

\* tf2::fromMsg(geometry_msgs::Pose, tf2::Transform) and tf2::toMsg
fromMsg(pose) == Transform(setRotation(pose.orientation), pose.position)
toMsg(t) == [position |-> t.origin, orientation |-> getRotation(t.basis)]
IdentityPose == [position |-> <<0, 0, 0>>, orientation |-> IdentityQ]

\* ------------------------------------------------------------------- state
VARIABLES
  current_trajectory_id_,  \* the file-scope counter
  node_poses,              \* GetTrajectoryNodePoses(): the nodes of trajectory 0, in order
  submap_poses,            \* GetAllSubmapPoses(): the submap origins, in iteration order
  active,                  \* node side: ids of the trajectories being built
  num_trajectories,        \* node side: number of trajectories that exist
  stage,                   \* how the last callback ended
  msg,                     \* the pose of the last /initialpose message
  calls,                   \* the service calls of the last callback, in order
  deref_end,               \* the last callback dereferenced BeginOfTrajectory(0) at the end
  traj_ref_tf,             \* locals of the last callback
  map_tf,
  initial_pose             \* request.initial_pose of the last start_trajectory request

vars == <<current_trajectory_id_, node_poses, submap_poses, active, num_trajectories,
          stage, msg, calls, deref_end, traj_ref_tf, map_tf, initial_pose>>

\* -------------------------------------------------- the node (other process)
\* ServiceClient::call returns false and leaves the response as constructed
\* when the request is not delivered.
DefaultResponseCode == 0

NodeFinish(id, delivered, act) ==
  IF ~delivered
  THEN {[returned |-> FALSE, code |-> DefaultResponseCode, active |-> act]}
  ELSE IF id \in act
  THEN {[returned |-> TRUE, code |-> StatusOK, active |-> act \ {id}]}
  ELSE {[returned |-> TRUE, code |-> c, active |-> act] : c \in NonOkCodes}

NodeStart(outcome, act, num) ==
  IF outcome = "undelivered"
  THEN {[returned |-> FALSE, code |-> DefaultResponseCode, active |-> act, num |-> num]}
  ELSE IF outcome = "ok"
  THEN {[returned |-> TRUE, code |-> StatusOK, active |-> act \cup {num}, num |-> num + 1]}
  ELSE {[returned |-> TRUE, code |-> c, active |-> act, num |-> num] : c \in NonOkCodes}

StartOutcomes == {"undelivered", "ok", "error"}

\* ------------------------------------------------------------ the scan loop
\* Lines 94-108: one iteration.  acc = [origin, min_dist], min_dist squared.
LoopBodySetsOrigin(acc, submap_origin) ==
  LET delta_pos == setZ(VecSub(submap_origin, acc.origin), 0)
  IN IF Less3(length2(delta_pos), acc.min_dist)
     THEN [origin |-> submap_origin, min_dist |-> length2(delta_pos)]
     ELSE acc
LoopBody(acc, submap_origin) ==
  LET delta_pos == setZ(VecSub(submap_origin, acc.origin), 0)
  IN IF Less3(length2(delta_pos), acc.min_dist)
     THEN [origin |-> setZ(acc.origin, submap_origin[3]), min_dist |-> length2(delta_pos)]
     ELSE acc

RECURSIVE ScanFrom(_, _, _)
ScanFrom(poses, i, acc) ==
  IF i > Len(poses) THEN acc
  ELSE ScanFrom(poses, i + 1, LoopBody(acc, poses[i]))

\* Lines 89-109: map_tf after the loop.
ScanSubmaps(tf, poses) ==
  Transform(tf.basis,
            ScanFrom(poses, 1, [origin |-> tf.origin, min_dist |-> Square3(kInitMinDist)]).origin)

\* Lines 79-82: traj_ref_tf from the global pose of the first node
RefTransform(traj_ref_pose) ==
  Transform(setRotation(traj_ref_pose.rotation), traj_ref_pose.translation)

FinishCall(id, r) ==
  [srv |-> "finish_trajectory", trajectory_id |-> id, returned |-> r.returned, code |-> r.code]
StartCall(r) ==
  [srv |-> "start_trajectory", trajectory_id |-> kRelativeToTrajectoryId,
   returned |-> r.returned, code |-> r.code]

\* ---------------------------------------------------------------- behaviour
Init ==
  /\ current_trajectory_id_ = kInitialTrajectoryId
  /\ node_poses \in {<<>>} \cup {<<p>> : p \in RefPoses}
  /\ submap_poses \in SeqsUpTo(FragmentPoses, MaxFragments)
  /\ active = {kInitialTrajectoryId}
  /\ num_trajectories = kInitialTrajectoryId + 1
  /\ stage = "idle"
  /\ msg = IdentityPose
  /\ calls = <<>>
  /\ deref_end = FALSE
  /\ traj_ref_tf = IdentityTf
  /\ map_tf = IdentityTf
  /\ initial_pose = IdentityPose

\* Line 79: node_poses.BeginOfTrajectory(0)->data.global_pose.  With no node
\* in trajectory 0 the iterator is the end iterator and reading through it is
\* undefined: the process aborts, or some pose is read.
BeginOfTrajectory0(poses) ==
  IF poses # <<>>
  THEN {[aborted |-> FALSE, global_pose |-> poses[1]]}
  ELSE {[aborted |-> TRUE, global_pose |-> [translation |-> <<0, 0, 0>>, rotation |-> IdentityQ]]}
       \cup {[aborted |-> FALSE, global_pose |-> p] : p \in RefPoses}

\* move_base_simple_callback, lines 56-132.  m is the message and
\* finish_delivered, start_outcome are what the node does with the two calls.
move_base_simple_callback(m, finish_delivered, start_outcome) ==
  /\ stage # "aborted"
  /\ current_trajectory_id_ < MaxTrajectoryId
  /\ current_trajectory_id_' = current_trajectory_id_ + 1
  /\ msg' = m
  /\ UNCHANGED <<node_poses, submap_poses>>
  /\ \E fin \in NodeFinish(current_trajectory_id_, finish_delivered, active) :
       LET finish_call == FinishCall(current_trajectory_id_, fin)
       IN IF fin.code # StatusOK
          THEN \* line 72
               /\ stage' = "finish_rejected"
               /\ calls' = <<finish_call>>
               /\ active' = fin.active
               /\ deref_end' = FALSE
               /\ traj_ref_tf' = IdentityTf
               /\ map_tf' = IdentityTf
               /\ initial_pose' = IdentityPose
               /\ UNCHANGED num_trajectories
          ELSE \E begin \in BeginOfTrajectory0(node_poses) :
                 IF begin.aborted
                 THEN \* line 79, the read ends the process
                      /\ stage' = "aborted"
                      /\ calls' = <<finish_call>>
                      /\ active' = fin.active
                      /\ deref_end' = TRUE
                      /\ traj_ref_tf' = IdentityTf
                      /\ map_tf' = IdentityTf
                      /\ initial_pose' = IdentityPose
                      /\ UNCHANGED num_trajectories
                 ELSE LET ref_tf == RefTransform(begin.global_pose)
                          corrected == ScanSubmaps(fromMsg(m), submap_poses)
                          relative_initpose_tf == TransformMul(inverse(ref_tf), corrected)
                      IN /\ deref_end' = (node_poses = <<>>)
                         /\ traj_ref_tf' = ref_tf
                         /\ map_tf' = corrected
                         /\ initial_pose' = toMsg(relative_initpose_tf)
                         /\ stage' = "done"
                         /\ \E st \in NodeStart(start_outcome, fin.active, num_trajectories) :
                              /\ calls' = <<finish_call, StartCall(st)>>
                              /\ active' = st.active
                              /\ num_trajectories' = st.num

Next ==
  \E m \in Hints, finish_delivered \in BOOLEAN, start_outcome \in StartOutcomes :
       move_base_simple_callback(m, finish_delivered, start_outcome)

Spec == Init /\ [][Next]_vars

\* ------------------------------------------------------------------ claims
\* The last callback ran to its end: the pose was reconciled and the
\* start_trajectory call was made.
Reconciled == stage = "done"

\* Squared horizontal distance of a submap origin to the hint.
HorizontalDist2(f, hint) ==
  Add3(Square3(f[1] - hint.position[1]), Square3(f[2] - hint.position[2]))
IsNearest(i) ==
  \A j \in 1..Len(submap_poses) :
    ~Less3(HorizontalDist2(submap_poses[j], msg), HorizontalDist2(submap_poses[i], msg))
Nearest == {i \in 1..Len(submap_poses) : IsNearest(i)}
FirstNearest == CHOOSE i \in Nearest : \A j \in Nearest : i <= j
StartCalls == {i \in 1..Len(calls) : calls[i].srv = "start_trajectory"}
\* The last callback had its finish_trajectory call answered with OK and read
\* the origin of trajectory 0 from a recorded node.
CleanRun == Reconciled /\ calls[1].returned /\ node_poses # <<>>
WithZ(hint, z) == [hint EXCEPT !.position = setZ(hint.position, z)]

\* C1: with a non-empty snapshot the z of the corrected pose is the z of a
\* submap whose horizontal distance to the hint is the minimum over the whole
\* snapshot, whatever the magnitude of that distance.
C1_NearestHeight ==
  (CleanRun /\ submap_poses # <<>>) =>
    \E i \in Nearest : map_tf.origin[3] = submap_poses[i][3]

\* C2: with an empty snapshot the callback never produces a pose that still
\* carries the z of the hint.
C2_EmptyMapRejected ==
  submap_poses = <<>> => ~(CleanRun /\ map_tf.origin[3] = msg.position[3])

\* C3: with no node in trajectory 0 the origin is never read through
\* BeginOfTrajectory(0) and no relative pose is produced.
C3_MissingOriginRejected ==
  (node_poses = <<>> /\ calls # <<>> /\ calls[1].returned) => (~deref_end /\ ~Reconciled)

\* C4: no start_trajectory request is sent by a callback that found the
\* snapshot empty or trajectory 0 without an origin node.
C4_NoRestartWithoutPose ==
  (submap_poses = <<>> \/ node_poses = <<>>) => StartCalls = {}

\* C5: with a non-empty snapshot the corrected pose has the x, the y and the
\* rotation of the hint; the loop writes nothing but z.
C5_HintPassesThrough ==
  (Reconciled /\ submap_poses # <<>>) =>
    /\ map_tf.origin[1] = msg.position[1]
    /\ map_tf.origin[2] = msg.position[2]
    /\ map_tf.basis = setRotation(msg.orientation)
C5_Witness ==
  /\ Reconciled
  /\ Len(submap_poses) = 2
  /\ map_tf.origin[3] # msg.position[3]
  /\ msg.position[1] # 0

\* C6: the pose sent as initial_pose, composed behind the reference origin,
\* gives back the corrected pose; with the identity as reference origin it is
\* the corrected pose.
C6_RoundTrip ==
  (Reconciled /\ node_poses # <<>>) =>
    /\ TransformMul(traj_ref_tf, fromMsg(initial_pose)) = map_tf
    /\ (traj_ref_tf = IdentityTf => fromMsg(initial_pose) = map_tf)
C6_Witness ==
  /\ Reconciled
  /\ node_poses # <<>>
  /\ traj_ref_tf.basis # IdentityBasis
  /\ traj_ref_tf.origin # <<0, 0, 0>>
  /\ initial_pose.position # map_tf.origin
  /\ fromMsg(initial_pose).basis # map_tf.basis

\* C7: when several submaps are at the same minimal horizontal distance the
\* recovered z is that of the first of them in iteration order.
C7_TieKeepsFirst ==
  (CleanRun /\ Cardinality(Nearest) >= 2) =>
    map_tf.origin[3] = submap_poses[FirstNearest][3]

\* C8: with a non-empty snapshot, a run that differs only in the z of the
\* hint produces the same corrected pose and the same relative pose.
C8_HintZIgnored ==
  (CleanRun /\ submap_poses # <<>>) =>
    \A z \in HintZ :
      LET other == ScanSubmaps(fromMsg(WithZ(msg, z)), submap_poses)
      IN /\ other = map_tf
         /\ toMsg(TransformMul(inverse(traj_ref_tf), other)) = initial_pose

\* C9: a start_trajectory request is sent only after the finish_trajectory
\* call of the same callback was delivered and answered with status OK.
C9_StartOnlyAfterFinishOK ==
  \A i \in StartCalls :
    /\ i = 2
    /\ calls[1].srv = "finish_trajectory"
    /\ calls[1].returned
    /\ calls[1].code = StatusOK

\* C10: between callbacks the counter names a trajectory that exists, and
\* the running one when a trajectory is running.
C10_CounterNamesRunning ==
  /\ current_trajectory_id_ < num_trajectories
  /\ (active # {} => current_trajectory_id_ \in active)

====
